---- MODULE Spec2Model ----
(***************************************************************************)
(* The file organizers of sorta.  Four of them are driven by the metadata  *)
(* document file_metadata.json:                                            *)
(*   "page"           src/src/app/pages/page.tsx (266-460)                 *)
(*                    images, fs.rename, pLimit tasks, copied flag         *)
(*   "sortaVids"      src/src/app/pages/api/sorta-vids.ts (1-165)          *)
(*                    videos, fs.copyFile, sequential loop, copied flag    *)
(*   "part000"        src/unnamed/part_000                                 *)
(*                    videos, fs.rename, pLimit tasks, copiedHashes        *)
(*   "createMetadata" src/src/app/pages/api/create-metadata.ts (102-260)   *)
(*                    images, fs.copyFile, sequential loop, copied flag    *)
(* Strings are sequences of tokens, so that a path or a file name is built *)
(* by concatenation as the code builds it.                                 *)
(***************************************************************************)
EXTENDS Integers, Sequences, FiniteSets, TLC

VARIABLES
    variant,            \* which organizer runs
    fileInfo,           \* source file f |-> [stem, ext]: its name in its own directory
    srcTree,            \* the source files that exist
    destDirs,           \* the directories that exist below destDir
    destTree,           \* destination path |-> what it holds (0: there before, f: file f)
    metadataFile,       \* the document at metadataFilePath: [kind, recs]
    phase,              \* where the process is
    rerun,              \* FALSE in the first process, TRUE in the second
    fileMetadataArray,  \* [defined, recs]: the loaded array, its records shared with the map
    copiedHashes,       \* part_000: the Set of hashes of copied records
    duplicateCount,
    spaceSaved,
    processedFiles,
    workList,           \* the files the pass calls processFile on, in order
    pc,                 \* f |-> the await processFile(f) is suspended at
    destSfx,            \* f |-> the suffix of the candidate destFileName (0 none, -1 _copy, n _n)
    fsLog,              \* history: the file system mutations made, [file, op, to, rerun]
    msgLog,             \* history: console messages of this process, [file, msg]
    ioErrors,           \* history: I/O calls that threw in this process, [file, op]
    loaded,             \* history: [kind, recs, disk], the document read, the records
                        \* fileMetadataMap held right after the load, those on disk then
    firstRun,           \* history: how the first process ended, once the second has started
    listing,            \* the walked tree: depth |-> the entries of every directory there
    stack,              \* the calls of collectFiles / scanDirectory in progress
    collected,          \* allFiles (filesMetadata.files in the scan), as paths below the root
    walk,               \* "idle", "walking", "returned", "threw", ..., "exited"
    process,            \* [argc, stdin, exitCode, usage, rootUnread, noFiles]: the command
                        \* line, the state of process.stdin and how the process ended;
                        \* rootUnread is history
    globalDuplicateAction,  \* sorta.ts: "null" or the sticky answer
    userChoice          \* sorta.ts: the answer to the conflict prompt of the file in hand

vars == << variant, fileInfo, srcTree, destDirs, destTree, metadataFile, phase, rerun,
           fileMetadataArray, copiedHashes, duplicateCount, spaceSaved, processedFiles,
           workList, pc, destSfx, fsLog, msgLog, ioErrors, loaded, firstRun,
           listing, stack, collected, walk, process, globalDuplicateAction, userChoice >>

(***************************************************************************)
(* Bounds and program constants                                            *)
(***************************************************************************)
NFiles == 2

limit == 10

FlushEvery == 10

Files == 1 .. NFiles

Variants == {"page", "sortaVids", "part000", "createMetadata"}

ConcurrentAlways(v) == TRUE

\* page.tsx and part_000 hand every processFile to the pool at once; the others await
\* each processFile in a for loop
Concurrent(v) == v \in {"page", "part000"}

Stems == {"a", "b"}

SrcExts == {".jpg", ".mp4"}

destDir == "out"

\* one record timestamp and the date formatTimestamp gives for it
Timestamp == "2022-03-01T10:00:00.000Z"

imageExtensions ==
    {".jpg", ".jpeg", ".png", ".gif", ".bmp", ".tiff", ".tif", ".webp",
     ".ico", ".heic", ".heif", ".raw", ".cr2", ".nef", ".orf", ".arw",
     ".sr2", ".dng", ".raf", ".rw2", ".pef", ".svg", ".img", ".psd", ".xcf", ".pcx", ".jp2"}

videoExtensions ==
    {".mp4", ".m4v", ".mov", ".avi", ".wmv", ".flv", ".mkv", ".webm",
     ".mpg", ".mpeg", ".hevc", ".h265", ".rm", ".rmvb", ".3gp", ".asf",
     ".vob", ".dat", ".swf", ".ts", ".m2ts", ".f4v", ".mxf", ".ogv",
     ".yuv", ".mjpg", ".mjpeg", ".divx", ".xvid", ".amv", ".vid", ".scm"}

(***************************************************************************)
(* Pure helpers                                                            *)
(***************************************************************************)
\* String.prototype.toLowerCase on the extensions of the model
toLowerCase(e) ==
    CASE e = ".JPG" -> ".jpg"
      [] e = ".MP4" -> ".mp4"
      [] OTHER -> e

\* path.extname(filePath).toLowerCase()
extOf(f) == toLowerCase(fileInfo[f].ext)

\* path.basename(filePath, ext): the suffix is removed only when it matches exactly
baseName(f) ==
    IF fileInfo[f].ext = extOf(f) THEN << fileInfo[f].stem >>
    ELSE << fileInfo[f].stem, fileInfo[f].ext >>

\* ext.replace('.', '')
extDirName(e) ==
    CASE e = ".jpg" -> "jpg"
      [] e = ".mp4" -> "mp4"
      [] OTHER -> e

relevantExtensions(v) == IF v \in {"page", "createMetadata"} THEN imageExtensions ELSE videoExtensions

categoryDir(v) ==
    CASE v = "page" -> "images"
      [] v = "createMetadata" -> "image"
      [] OTHER -> "videos"

\* path.join(destDir, <category>, ext.replace('.', ''))
typeDirOf(v, e) == << destDir, "/", categoryDir(v), "/", extDirName(e) >>

typeDir(f) == typeDirOf(variant, extOf(f))

formatTimestamp(ts) == IF ts = Timestamp THEN "2022-03-01" ELSE "1970-01-01"

\* the text appended to the base name for a suffix value
sfxText(v, s) ==
    IF s = 0 THEN << >>
    ELSE IF s = -1 THEN << "_copy" >>
    ELSE << "_", ToString(s) >>

\* `${formattedTimestamp}_${baseName}${suffix}${ext}`
destFileNameOf(date, base, s, e) == << date, "_" >> \o base \o sfxText(variant, s) \o << e >>

destFileName(f, s) == destFileNameOf(formatTimestamp(Timestamp), baseName(f), s, extOf(f))

\* path.join(typeDir, destFileName)
destPath(f, s) == typeDir(f) \o << "/" >> \o destFileName(f, s)

\* stats.size of source file f: distinct powers of two, so a sum names its summands
sizeOf(f) == 2 ^ (f - 1)

Exists(p) == p \in DOMAIN destTree

WriteAt(tree, p, v) == [q \in (DOMAIN tree) \cup {p} |-> IF q = p THEN v ELSE tree[q]]

(***************************************************************************)
(* The metadata document and its records                                   *)
(***************************************************************************)
HashValues == {"h1", "h2"}

NoRecord ==
    [present |-> FALSE, copied |-> FALSE, hash |-> "none", timestamp |-> "none", path |-> 0,
     filename |-> << >>]

\* the record the scan pushes for the file at path p: filename, path, timestamp, copied, hash
Record(p, info, c, h) ==
    [present |-> TRUE, copied |-> c, hash |-> h, timestamp |-> Timestamp, path |-> p,
     filename |-> << info.stem, info.ext >>]

NoRecords == [f \in Files |-> NoRecord]

\* the hashes the record of the file at path p may carry in a metadata file for this
\* organizer; hash values are interchangeable, so the first file's is the first one
HashChoices(v, p) ==
    IF v # "part000" THEN {"none"}
    ELSE IF p = 1 THEN {"h1"}
    ELSE HashValues

NotLoaded == [kind |-> "none", recs |-> NoRecords, disk |-> NoRecords]

\* JSON.stringify({ files: fileMetadataArray }): undefined is dropped from the object
Stringify(arr) ==
    IF arr.defined THEN [kind |-> "ok", recs |-> arr.recs]
    ELSE [kind |-> "nofiles", recs |-> NoRecords]

\* fileMetadataMap[filePath]
Metadata(f) == fileMetadataArray.recs[f]

(***************************************************************************)
(* Initial states: a source tree, a destination tree and a metadata file   *)
(***************************************************************************)
\* the extension of the model's source files that organizer v accepts
eligibleExt(v) == IF v \in {"page", "createMetadata"} THEN ".jpg" ELSE ".mp4"

\* what the destination may hold before the first pass: suffixes of stem "a"
PreExisting == { {}, {0}, {0, -1}, {0, 1} }

prePath(v, s) ==
    typeDirOf(v, eligibleExt(v)) \o << "/" >>
        \o destFileNameOf(formatTimestamp(Timestamp), << "a" >>, s, eligibleExt(v))

\* the records a metadata-generation scan may have left for file f
RecordChoices(v, p, info) ==
    IF info.ext # eligibleExt(v) THEN {NoRecord}
    ELSE {NoRecord} \cup
         { Record(p, info, c, h) : c \in BOOLEAN, h \in HashChoices(v, p) }

InitDisk ==
    /\ variant \in Variants
    /\ fileInfo \in [Files -> [stem : Stems, ext : SrcExts]]
    /\ fileInfo[1].stem = "a"
    /\ srcTree = Files
    /\ \E pre \in PreExisting :
          /\ destTree = [p \in { prePath(variant, s) : s \in pre } |-> 0]
          /\ destDirs \in IF pre = {} THEN { {}, {typeDirOf(variant, eligibleExt(variant))} }
                          ELSE { {typeDirOf(variant, eligibleExt(variant))} }
    /\ \/ \E recs \in [Files -> UNION { RecordChoices(variant, f, fileInfo[f]) : f \in Files }] :
             /\ \A f \in Files : recs[f] \in RecordChoices(variant, f, fileInfo[f])
             /\ metadataFile = [kind |-> "ok", recs |-> recs]
       \/ \E k \in {"missing", "invalid", "nofiles"} :
             metadataFile = [kind |-> k, recs |-> NoRecords]
    /\ fsLog = {}

\* the state of a process that has just been started
InitMemory ==
    /\ phase = "boot"
    /\ fileMetadataArray = [defined |-> TRUE, recs |-> NoRecords]
    /\ copiedHashes = {}
    /\ duplicateCount = 0
    /\ spaceSaved = 0
    /\ processedFiles = 0
    /\ workList = << >>
    /\ pc = [f \in Files |-> "queued"]
    /\ destSfx = [f \in Files |-> 0]
    /\ msgLog = {}
    /\ ioErrors = {}
    /\ loaded = NotLoaded
    /\ globalDuplicateAction = "null"
    /\ userChoice = "none"

\* a process started with the arguments argc counts, before its first statement
Started(argc) ==
    [argc |-> argc, stdin |-> "open", exitCode |-> "none", usage |-> FALSE,
     rootUnread |-> FALSE, noFiles |-> FALSE]

\* no directory walk is modelled step by step in this specification
NoWalk ==
    /\ listing = << >>
    /\ stack = << >>
    /\ collected = << >>
    /\ walk = "idle"
    /\ process = Started(2)

Init == InitDisk /\ InitMemory /\ rerun = FALSE /\ firstRun = "none" /\ NoWalk

memVars == << fileMetadataArray, copiedHashes, duplicateCount, spaceSaved, processedFiles,
              workList, pc, destSfx, msgLog, ioErrors, loaded, globalDuplicateAction,
              userChoice >>

promptVars == << globalDuplicateAction, userChoice >>

diskVars == << srcTree, destDirs, destTree, metadataFile, fsLog >>

walkVars == << listing, stack, collected, walk, process >>

staticVars == << variant, fileInfo, rerun, firstRun, walkVars, promptVars >>

(***************************************************************************)
(* Loading the metadata file (module top level)                            *)
(***************************************************************************)
\* the try block: readFile, JSON.parse(...).files, reduce; the catch only logs
LoadedArray(doc) ==
    CASE doc.kind = "ok" -> [defined |-> TRUE, recs |-> doc.recs]
      [] doc.kind = "nofiles" -> [defined |-> FALSE, recs |-> NoRecords]
      [] OTHER -> [defined |-> TRUE, recs |-> NoRecords]

\* the phase after the try/catch: the catch swallows every error
PhaseAfterLoadNoCatch(doc) == IF doc.kind = "ok" THEN "loaded" ELSE "crashed"

PhaseAfterLoad(doc) == "loaded"

\* part_000: copiedHashes gets the hash of every copied record
LoadedHashes(v, arr) ==
    IF v = "part000"
    THEN { arr.recs[f].hash : f \in { g \in Files : arr.recs[g].present /\ arr.recs[g].copied } }
    ELSE {}

\* await fs.readFile(metadataFilePath, 'utf-8') resolves with the document or rejects
ReadFile(file) == {file, [kind |-> "unread", recs |-> NoRecords]}

LoadMetadata ==
    /\ variant \in Variants
    /\ phase = "boot"
    /\ \E doc \in ReadFile(metadataFile) :
          /\ fileMetadataArray' = LoadedArray(doc)
          /\ loaded' = [kind |-> doc.kind, recs |-> fileMetadataArray'.recs,
                        disk |-> metadataFile.recs]
          /\ phase' = PhaseAfterLoad(doc)
    /\ copiedHashes' = LoadedHashes(variant, fileMetadataArray')
    /\ UNCHANGED << staticVars, diskVars, duplicateCount, spaceSaved, processedFiles,
                    workList, pc, destSfx, msgLog, ioErrors >>

(***************************************************************************)
(* organizeFilesByType: collecting and filtering                           *)
(***************************************************************************)
AllIds == [i \in Files |-> i]

InSrc(f) == f \in srcTree

\* allFiles, in the order of the directory walk
allFiles == SelectSeq(AllIds, InSrc)

IsRelevant(f) == extOf(f) \in relevantExtensions(variant)

\* create-metadata.ts filters inside processFile, the others before
FilesToProcess ==
    IF variant = "createMetadata" THEN allFiles ELSE SelectSeq(allFiles, IsRelevant)

CollectFiles ==
    /\ phase = "loaded"
    /\ IF Len(FilesToProcess) = 0
       THEN phase' = "ended" /\ UNCHANGED workList
       ELSE phase' = "running" /\ workList' = FilesToProcess
    /\ UNCHANGED << staticVars, diskVars, fileMetadataArray, copiedHashes, duplicateCount,
                    spaceSaved, processedFiles, pc, destSfx, msgLog, ioErrors, loaded >>

(***************************************************************************)
(* processFile, one action per await                                       *)
(***************************************************************************)
InWork(f) == \E i \in 1 .. Len(workList) : workList[i] = f

\* the files before f in the work list
Before(f) == { workList[j] : j \in { k \in 1 .. Len(workList) : \E i \in 1 .. Len(workList) :
                                         workList[i] = f /\ k < i } }

Settled(f) == pc[f] \in {"done", "rejected"}

\* the tasks pLimit counts as running
activeCount == Cardinality({ f \in DOMAIN pc : pc[f] \notin {"queued", "done", "rejected"} })

HasRoomAlways(n) == TRUE

\* p-limit runs a queued task only while fewer than its concurrency are running
HasRoom(n) == n < limit

\* pLimit starts queued tasks in order while fewer than limit run; the for loop of the
\* sequential organizers awaits each processFile before the next
MayStart(f) ==
    /\ phase = "running"
    /\ InWork(f)
    /\ pc[f] = "queued"
    /\ IF Concurrent(variant)
       THEN HasRoom(activeCount) /\ \A g \in Before(f) : pc[g] # "queued"
       ELSE \A g \in Before(f) : pc[g] = "done"

\* an I/O completion is a macrotask: it runs after every task pLimit can start has started
MayResume(f, at) ==
    /\ phase = "running"
    /\ pc[f] = at
    /\ \A g \in DOMAIN pc : ~MayStart(g)

NoMetadataNever(m) == FALSE

\* if (!metadata)
NoMetadata(m) == ~m.present

AlreadyCopiedNever(m) == FALSE

\* if (metadata.copied)
AlreadyCopied(m) == m.copied

\* if (copiedHashes.has(metadata.hash))
DuplicateHash(m) == m.hash \in copiedHashes

Say(f, text) == msgLog' = msgLog \cup {[file |-> f, msg |-> text]}

Did(f, what, where) == fsLog' = fsLog \cup {[file |-> f, op |-> what, to |-> where, rerun |-> rerun]}

Threw(f, what) == ioErrors' = ioErrors \cup {[file |-> f, op |-> what]}

\* the pc at the first existence check of the destination path
firstCheck == IF Concurrent(variant) THEN "awaitAccess" ELSE "awaitExists"

\* processFile up to its first await
StartTask(f) ==
    /\ variant \in Variants
    /\ MayStart(f)
    /\ LET m == Metadata(f) IN
       IF variant = "createMetadata" /\ ~IsRelevant(f)
       THEN /\ pc' = [pc EXCEPT ![f] = "done"]
            /\ UNCHANGED << msgLog, duplicateCount >>
       ELSE IF NoMetadata(m)
       THEN /\ Say(f, "noMetadata")
            /\ pc' = [pc EXCEPT ![f] = "done"]
            /\ UNCHANGED duplicateCount
       ELSE IF variant # "part000" /\ AlreadyCopied(m)
       THEN /\ Say(f, "alreadyCopied")
            /\ pc' = [pc EXCEPT ![f] = "done"]
            /\ UNCHANGED duplicateCount
       ELSE IF variant = "part000" /\ DuplicateHash(m)
       THEN /\ Say(f, "duplicate")
            /\ duplicateCount' = duplicateCount + 1
            /\ pc' = [pc EXCEPT ![f] = "awaitStat"]
       ELSE /\ pc' = [pc EXCEPT ![f] = "awaitDirExists"]
            /\ UNCHANGED << msgLog, duplicateCount >>
    /\ UNCHANGED << staticVars, diskVars, phase, fileMetadataArray, copiedHashes, spaceSaved,
                    processedFiles, workList, destSfx, ioErrors, loaded >>

\* part_000: const stats = await fs.stat(filePath), outside every try
StatDone(f) ==
    /\ MayResume(f, "awaitStat")
    /\ \/ /\ spaceSaved' = spaceSaved + sizeOf(f)
          /\ pc' = [pc EXCEPT ![f] = "done"]
          /\ UNCHANGED << phase, ioErrors >>
       \/ /\ Threw(f, "stat")
          /\ pc' = [pc EXCEPT ![f] = "rejected"]
          /\ phase' = "crashed"
          /\ UNCHANGED spaceSaved
    /\ UNCHANGED << staticVars, diskVars, fileMetadataArray, copiedHashes, duplicateCount,
                    processedFiles, workList, destSfx, msgLog, loaded >>

\* if (!(await directoryExists(typeDir)))
DirExistsDone(f) ==
    /\ variant \in Variants
    /\ MayResume(f, "awaitDirExists")
    /\ IF typeDir(f) \in destDirs
       THEN pc' = [pc EXCEPT ![f] = firstCheck]
       ELSE pc' = [pc EXCEPT ![f] = "awaitMkdir"]
    /\ destSfx' = [destSfx EXCEPT ![f] = 0]
    /\ UNCHANGED << staticVars, diskVars, phase, fileMetadataArray, copiedHashes, duplicateCount,
                    spaceSaved, processedFiles, workList, msgLog, ioErrors, loaded >>

\* await fs.mkdir(typeDir, { recursive: true }), outside every try
MkdirDone(f) ==
    /\ MayResume(f, "awaitMkdir")
    /\ \/ /\ destDirs' = destDirs \cup {typeDir(f)}
          /\ Did(f, "mkdir", typeDir(f))
          /\ pc' = [pc EXCEPT ![f] = firstCheck]
          /\ UNCHANGED << phase, ioErrors >>
       \/ /\ Threw(f, "mkdir")
          /\ pc' = [pc EXCEPT ![f] = "rejected"]
          /\ phase' = "crashed"
          /\ UNCHANGED << destDirs, fsLog >>
    /\ UNCHANGED << staticVars, srcTree, destTree, metadataFile, fileMetadataArray, copiedHashes,
                    duplicateCount, spaceSaved, processedFiles, workList, destSfx, msgLog, loaded >>

\* page.tsx, part_000: one fs.access of the destination; the name gets _copy if it is there
AccessDone(f) ==
    /\ MayResume(f, "awaitAccess")
    /\ IF Exists(destPath(f, 0))
       THEN /\ Say(f, "exists")
            /\ destSfx' = [destSfx EXCEPT ![f] = -1]
       ELSE UNCHANGED << msgLog, destSfx >>
    /\ pc' = [pc EXCEPT ![f] = "awaitRename"]
    /\ UNCHANGED << staticVars, diskVars, phase, fileMetadataArray, copiedHashes, duplicateCount,
                    spaceSaved, processedFiles, workList, ioErrors, loaded >>

AfterCopyRehash(arr, f) == [arr EXCEPT !.recs[f].copied = TRUE, !.recs[f].hash = "rehashed"]

\* metadata.copied = true (create-metadata.ts: and metadata.filename = destFileName)
AfterCopy(arr, f) ==
    IF variant = "createMetadata"
    THEN [arr EXCEPT !.recs[f].copied = TRUE, !.recs[f].filename = destFileName(f, destSfx[f])]
    ELSE [arr EXCEPT !.recs[f].copied = TRUE]

NextSuffixSame(s) == s

\* suffix++
NextSuffix(s) == s + 1

\* sorta-vids.ts, create-metadata.ts: while (await exists(destPath)) { ..._${suffix}...; suffix++ }
ExistsDone(f) ==
    /\ variant \in Variants
    /\ MayResume(f, "awaitExists")
    /\ IF Exists(destPath(f, destSfx[f]))
       THEN /\ destSfx' = [destSfx EXCEPT ![f] = NextSuffix(destSfx[f])]
            /\ UNCHANGED pc
       ELSE /\ pc' = [pc EXCEPT ![f] = "awaitCopy"]
            /\ UNCHANGED destSfx
    /\ UNCHANGED << staticVars, diskVars, phase, fileMetadataArray, copiedHashes, duplicateCount,
                    spaceSaved, processedFiles, workList, msgLog, ioErrors, loaded >>

\* page.tsx, part_000: await fs.rename(filePath, destPath) inside try/catch
RenameDone(f) ==
    /\ MayResume(f, "awaitRename")
    /\ \/ /\ f \in srcTree
          /\ srcTree' = srcTree \ {f}
          /\ destTree' = WriteAt(destTree, destPath(f, destSfx[f]), f)
          /\ Did(f, "rename", destPath(f, destSfx[f]))
          /\ Say(f, "moved")
          /\ fileMetadataArray' = AfterCopy(fileMetadataArray, f)
          /\ copiedHashes' = IF variant = "part000"
                             THEN copiedHashes \cup {Metadata(f).hash}
                             ELSE copiedHashes
          /\ processedFiles' = processedFiles + 1
          /\ UNCHANGED ioErrors
       \/ /\ Threw(f, "rename")
          /\ Say(f, "error")
          /\ UNCHANGED << srcTree, destTree, fsLog, fileMetadataArray, copiedHashes, processedFiles >>
    /\ pc' = [pc EXCEPT ![f] = "done"]
    /\ UNCHANGED << staticVars, destDirs, metadataFile, phase, duplicateCount, spaceSaved,
                    workList, destSfx, loaded >>

\* create-metadata.ts also sets metadata.filename = destFileName
FlushDueNever(n) == FALSE

\* if (processedFiles % 10 === 0)
FlushDue(n) == n % FlushEvery = 0

\* sorta-vids.ts, create-metadata.ts: await limit(copyFile; metadata.copied = true), no try;
\* then processedFiles++ and every tenth time updateMetadataFile()
CopyDone(f) ==
    /\ variant \in Variants
    /\ MayResume(f, "awaitCopy")
    /\ \/ /\ destTree' = WriteAt(destTree, destPath(f, destSfx[f]), f)
          /\ Did(f, "copy", destPath(f, destSfx[f]))
          /\ fileMetadataArray' = AfterCopy(fileMetadataArray, f)
          /\ processedFiles' = processedFiles + 1
          /\ metadataFile' = IF FlushDue(processedFiles')
                             THEN Stringify(fileMetadataArray')
                             ELSE metadataFile
          /\ pc' = [pc EXCEPT ![f] = "done"]
          /\ UNCHANGED << phase, ioErrors >>
       \/ /\ Threw(f, "copy")
          /\ pc' = [pc EXCEPT ![f] = "rejected"]
          /\ phase' = "crashed"
          /\ UNCHANGED << destTree, fsLog, fileMetadataArray, processedFiles, metadataFile >>
    /\ UNCHANGED << staticVars, srcTree, destDirs, copiedHashes, duplicateCount, spaceSaved,
                    workList, destSfx, msgLog, loaded >>

(***************************************************************************)
(* The end of the pass, interruption and the second process                *)
(***************************************************************************)
\* every processFile has returned: await updateMetadataFile() opens the file for writing
StartFlush ==
    /\ variant \in Variants
    /\ phase = "running"
    /\ \A i \in 1 .. Len(workList) : pc[workList[i]] = "done"
    /\ phase' = "flushing"
    /\ metadataFile' = [kind |-> "partial", recs |-> NoRecords]
    /\ UNCHANGED << staticVars, srcTree, destDirs, destTree, fsLog, memVars >>

\* fs.writeFile has written the whole document
FlushDone ==
    /\ phase = "flushing"
    /\ metadataFile' = Stringify(fileMetadataArray)
    /\ phase' = "ended"
    /\ UNCHANGED << staticVars, srcTree, destDirs, destTree, fsLog, memVars >>

\* the process is killed; what it held in memory is gone
Interrupt ==
    /\ phase \in {"running", "flushing"}
    /\ ~rerun
    /\ phase' = "interrupted"
    /\ fileMetadataArray' = [defined |-> TRUE, recs |-> NoRecords]
    /\ copiedHashes' = {}
    /\ duplicateCount' = 0
    /\ spaceSaved' = 0
    /\ processedFiles' = 0
    /\ workList' = << >>
    /\ pc' = [f \in Files |-> "queued"]
    /\ destSfx' = [f \in Files |-> 0]
    /\ msgLog' = {}
    /\ ioErrors' = {}
    /\ loaded' = NotLoaded
    /\ globalDuplicateAction' = "null"
    /\ userChoice' = "none"
    /\ UNCHANGED << variant, fileInfo, rerun, firstRun, walkVars, diskVars >>

\* the organizer is started again on what the first process left on disk
Rerun ==
    /\ phase \in {"ended", "crashed", "interrupted"}
    /\ ~rerun
    /\ rerun' = TRUE
    /\ phase' = "boot"
    /\ fileMetadataArray' = [defined |-> TRUE, recs |-> NoRecords]
    /\ copiedHashes' = {}
    /\ duplicateCount' = 0
    /\ spaceSaved' = 0
    /\ processedFiles' = 0
    /\ workList' = << >>
    /\ pc' = [f \in Files |-> "queued"]
    /\ destSfx' = [f \in Files |-> 0]
    /\ msgLog' = {}
    /\ ioErrors' = {}
    /\ loaded' = NotLoaded
    /\ globalDuplicateAction' = "null"
    /\ userChoice' = "none"
    /\ firstRun' = phase
    /\ UNCHANGED << variant, fileInfo, diskVars, walkVars >>

Next ==
    \/ LoadMetadata
    \/ CollectFiles
    \/ \E f \in Files : StartTask(f)
    \/ \E f \in Files : StatDone(f)
    \/ \E f \in Files : DirExistsDone(f)
    \/ \E f \in Files : MkdirDone(f)
    \/ \E f \in Files : AccessDone(f)
    \/ \E f \in Files : ExistsDone(f)
    \/ \E f \in Files : RenameDone(f)
    \/ \E f \in Files : CopyDone(f)
    \/ StartFlush
    \/ FlushDone
    \/ Interrupt
    \/ Rerun

Spec == Init /\ [][Next]_vars

(***************************************************************************)
(* The two image organizers (page.tsx, create-metadata.ts) run once over   *)
(* files whose extension is written in lower or in upper case, each with   *)
(* an un-copied record, into a destination that holds no file yet.         *)
(***************************************************************************)
ImageExts == {".jpg", ".JPG"}

InitImages ==
    /\ variant \in {"page", "createMetadata"}
    /\ fileInfo \in [Files -> [stem : {"photo1"}, ext : ImageExts]]
    /\ srcTree = Files
    /\ destTree = << >>
    /\ destDirs \in { {}, {typeDirOf(variant, ".jpg")} }
    /\ metadataFile =
          [kind |-> "ok",
           recs |-> [f \in Files |-> Record(f, fileInfo[f], FALSE, "none")]]
    /\ fsLog = {}
    /\ InitMemory
    /\ rerun = FALSE
    /\ firstRun = "none"
    /\ NoWalk

NextImages ==
    \/ LoadMetadata
    \/ CollectFiles
    \/ \E f \in Files : StartTask(f)
    \/ \E f \in Files : DirExistsDone(f)
    \/ \E f \in Files : MkdirDone(f)
    \/ \E f \in Files : AccessDone(f)
    \/ \E f \in Files : ExistsDone(f)
    \/ \E f \in Files : RenameDone(f)
    \/ \E f \in Files : CopyDone(f)
    \/ StartFlush
    \/ FlushDone

SpecImages == InitImages /\ [][NextImages]_vars

(***************************************************************************)
(* The worker pool of part_000 (page.tsx has the same) with more tasks     *)
(* than it admits: limit(() => processFile(filePath)) for every file,      *)
(* then Promise.all.  Only the position of each task is followed here; the *)
(* records, counters and the file system are those of Spec.                *)
(***************************************************************************)
NTasks == 11

Tasks == 1 .. NTasks

InitPool ==
    /\ variant = "part000"
    /\ fileInfo = [f \in Files |-> [stem |-> "a", ext |-> eligibleExt(variant)]]
    /\ srcTree = Files
    /\ destTree = << >>
    /\ destDirs = {typeDirOf(variant, eligibleExt(variant))}
    /\ metadataFile = [kind |-> "ok", recs |-> NoRecords]
    /\ fsLog = {}
    /\ phase = "running"
    /\ fileMetadataArray = [defined |-> TRUE, recs |-> NoRecords]
    /\ copiedHashes = {}
    /\ duplicateCount = 0
    /\ spaceSaved = 0
    /\ processedFiles = 0
    /\ workList = [i \in Tasks |-> i]
    /\ pc = [t \in Tasks |-> "queued"]
    /\ destSfx = [f \in Files |-> 0]
    /\ msgLog = {}
    /\ ioErrors = {}
    /\ loaded = NotLoaded
    /\ globalDuplicateAction = "null"
    /\ userChoice = "none"
    /\ rerun = FALSE
    /\ firstRun = "none"
    /\ NoWalk

poolFrame == << staticVars, diskVars, fileMetadataArray, copiedHashes, duplicateCount, spaceSaved,
                processedFiles, workList, destSfx, msgLog, ioErrors, loaded >>

\* the task leaves the queue: processFile returns at once (no metadata, copied) or
\* goes on to the existence check of its destination
PoolStart(t) ==
    /\ MayStart(t)
    /\ \E at \in {"done", "awaitAccess"} : pc' = [pc EXCEPT ![t] = at]
    /\ UNCHANGED << poolFrame, phase >>

PoolAccessDone(t) ==
    /\ MayResume(t, "awaitAccess")
    /\ pc' = [pc EXCEPT ![t] = "awaitRename"]
    /\ UNCHANGED << poolFrame, phase >>

\* fs.rename settles; resolved or caught, the task is over
PoolRenameDone(t) ==
    /\ MayResume(t, "awaitRename")
    /\ pc' = [pc EXCEPT ![t] = "done"]
    /\ UNCHANGED << poolFrame, phase >>

\* await Promise.all(promises) resolves
PoolFinish ==
    /\ phase = "running"
    /\ \A t \in Tasks : pc[t] = "done"
    /\ phase' = "ended"
    /\ UNCHANGED << poolFrame, pc >>

NextPool ==
    \/ \E t \in Tasks : PoolStart(t)
    \/ \E t \in Tasks : PoolAccessDone(t)
    \/ \E t \in Tasks : PoolRenameDone(t)
    \/ PoolFinish

SpecPool == InitPool /\ [][NextPool]_vars

(***************************************************************************)
(* sorta.ts: the organizer without metadata, with the conflict prompt      *)
(***************************************************************************)
SortaExts == {".jpg", ""}

\* path.join(destDir, ext.replace('.', ''))
sortaTypeDir(f) == << destDir, "/", extDirName(extOf(f)) >>

\* path.join(typeDir, path.basename(filePath)), or what getUniqueDestPath makes of it:
\* path.join(path.dirname(destPath), `${baseName}(${suffix})${ext}`)
sortaDestPath(f, s) ==
    sortaTypeDir(f) \o << "/" >> \o
        (IF s = 0 THEN << fileInfo[f].stem, fileInfo[f].ext >>
         ELSE baseName(f) \o << "(", ToString(s), ")" >> \o << extOf(f) >>)

SortaPreExisting == { {}, {0}, {0, 1} }

sortaPrePath(s) ==
    << destDir, "/", "jpg", "/" >> \o
        (IF s = 0 THEN << "a", ".jpg" >> ELSE << "a", "(", ToString(s), ")", ".jpg" >>)

InitSorta ==
    /\ variant = "sorta"
    /\ fileInfo \in [Files -> [stem : Stems, ext : SortaExts]]
    /\ srcTree = Files
    /\ \E pre \in SortaPreExisting :
          /\ destTree = [p \in { sortaPrePath(s) : s \in pre } |-> 0]
          /\ destDirs \in IF pre = {} THEN { {}, {<< destDir, "/", "jpg" >>} }
                          ELSE { {<< destDir, "/", "jpg" >>} }
    /\ metadataFile = [kind |-> "missing", recs |-> NoRecords]
    /\ fsLog = {}
    /\ InitMemory
    /\ rerun = FALSE
    /\ firstRun = "none"
    /\ listing = << >>
    /\ stack = << >>
    /\ collected = << >>
    /\ walk = "idle"
    /\ \E channel \in {"open", "ended"} : process = [Started(2) EXCEPT !.stdin = channel]

sortaFrame == << variant, fileInfo, rerun, firstRun, walkVars, metadataFile, fileMetadataArray,
                 copiedHashes, duplicateCount, spaceSaved, loaded >>

\* collectFiles takes every file; there is no extension filter before the loop
SortaCollect ==
    /\ variant = "sorta"
    /\ phase = "boot"
    /\ IF Len(allFiles) = 0
       THEN phase' = "ended" /\ UNCHANGED workList
       ELSE phase' = "running" /\ workList' = allFiles
    /\ UNCHANGED << sortaFrame, srcTree, destDirs, destTree, fsLog, processedFiles, pc, destSfx,
                    msgLog, ioErrors, promptVars >>

\* processFile up to its first await: if (ext) { await directoryExists(typeDir) ...
SortaStart(f) ==
    /\ variant = "sorta"
    /\ MayStart(f)
    /\ pc' = [pc EXCEPT ![f] = IF extOf(f) = "" THEN "done" ELSE "awaitDirExists"]
    /\ userChoice' = "none"
    /\ destSfx' = [destSfx EXCEPT ![f] = 0]
    /\ UNCHANGED << sortaFrame, srcTree, destDirs, destTree, fsLog, phase, processedFiles,
                    workList, msgLog, ioErrors, globalDuplicateAction >>

SortaDirExistsDone(f) ==
    /\ variant = "sorta"
    /\ MayResume(f, "awaitDirExists")
    /\ pc' = [pc EXCEPT ![f] = IF sortaTypeDir(f) \in destDirs THEN "awaitConflict"
                               ELSE "awaitMkdir"]
    /\ UNCHANGED << sortaFrame, srcTree, destDirs, destTree, fsLog, phase, processedFiles,
                    workList, destSfx, msgLog, ioErrors, promptVars >>

\* a throw leaves processFile and the for loop; the .catch at the call logs it
SortaMkdirDone(f) ==
    /\ variant = "sorta"
    /\ MayResume(f, "awaitMkdir")
    /\ \/ /\ destDirs' = destDirs \cup {sortaTypeDir(f)}
          /\ Did(f, "mkdir", sortaTypeDir(f))
          /\ pc' = [pc EXCEPT ![f] = "awaitConflict"]
          /\ UNCHANGED << phase, ioErrors >>
       \/ /\ Threw(f, "mkdir")
          /\ pc' = [pc EXCEPT ![f] = "rejected"]
          /\ phase' = "crashed"
          /\ UNCHANGED << destDirs, fsLog >>
    /\ UNCHANGED << sortaFrame, srcTree, destTree, processedFiles, workList, destSfx, msgLog,
                    promptVars >>

AfterActionSkipCopies(action) == IF action = "a" THEN "awaitUnique" ELSE "awaitCopy"

\* handleDuplicateAction: where processFile goes on after the decision
AfterAction(action) ==
    CASE action = "s" -> "skipped"
      [] action = "r" -> "awaitCopy"
      [] action = "a" -> "awaitUnique"
      [] OTHER -> "skipped"

\* processFile after handleFileConflict returned for the decision
Decided(f, action) ==
    IF AfterAction(action) = "skipped"
    THEN /\ Say(f, "skipped")
         /\ pc' = [pc EXCEPT ![f] = "done"]
    ELSE /\ pc' = [pc EXCEPT ![f] = AfterAction(action)]
         /\ UNCHANGED msgLog

StickySetNever(action) == FALSE

\* if (globalDuplicateAction)
StickySet(action) == action # "null"

\* handleFileConflict: await directoryExists(destPath), then the sticky action or the prompt
ConflictCheckDone(f) ==
    /\ variant = "sorta"
    /\ MayResume(f, "awaitConflict")
    /\ IF ~Exists(sortaDestPath(f, 0))
       THEN pc' = [pc EXCEPT ![f] = "awaitCopy"] /\ UNCHANGED msgLog
       ELSE IF StickySet(globalDuplicateAction)
       THEN Decided(f, globalDuplicateAction)
       ELSE pc' = [pc EXCEPT ![f] = "awaitChoice"] /\ Say(f, "conflict")
    /\ UNCHANGED << sortaFrame, srcTree, destDirs, destTree, fsLog, phase, processedFiles,
                    workList, destSfx, ioErrors, promptVars >>

Answers == {"s", "r", "a", "x"}

\* promptUserForDuplicateAction resolves with whatever line stdin delivers
ChoiceAnswered(f) ==
    /\ variant = "sorta"
    /\ MayResume(f, "awaitChoice")
    /\ process.stdin = "open"
    /\ \E answer \in Answers :
          /\ userChoice' = answer
          /\ IF answer = "a"
             THEN pc' = [pc EXCEPT ![f] = "awaitApplyAll"] /\ UNCHANGED msgLog
             ELSE Decided(f, answer)
    /\ UNCHANGED << sortaFrame, srcTree, destDirs, destTree, fsLog, phase, processedFiles,
                    workList, destSfx, ioErrors, globalDuplicateAction >>

\* askApplyToAll resolves with answer === 'y'
ApplyAllAnswered(f) ==
    /\ variant = "sorta"
    /\ MayResume(f, "awaitApplyAll")
    /\ process.stdin = "open"
    /\ \E applyToAll \in BOOLEAN :
          globalDuplicateAction' = IF applyToAll THEN userChoice ELSE globalDuplicateAction
    /\ Decided(f, userChoice)
    /\ UNCHANGED << sortaFrame, srcTree, destDirs, destTree, fsLog, phase, processedFiles,
                    workList, destSfx, ioErrors, userChoice >>

\* process.stdin has ended (no terminal, input at end of file): 'data' is never emitted,
\* the promise of the prompt stays pending, nothing is left to wait for and the process
\* ends as one whose work is done
NoAnswer(f) ==
    /\ variant = "sorta"
    /\ MayResume(f, "awaitChoice")
    /\ process.stdin = "ended"
    /\ phase' = "drained"
    /\ process' = [process EXCEPT !.exitCode = 0]
    /\ UNCHANGED << variant, fileInfo, rerun, firstRun, listing, stack, collected, walk,
                    diskVars, memVars >>

\* getUniqueDestPath: while (await fs.access(newDestPath) succeeds) next suffix
UniqueProbeDone(f) ==
    /\ variant = "sorta"
    /\ MayResume(f, "awaitUnique")
    /\ IF Exists(sortaDestPath(f, destSfx[f]))
       THEN destSfx' = [destSfx EXCEPT ![f] = NextSuffix(destSfx[f])] /\ UNCHANGED pc
       ELSE pc' = [pc EXCEPT ![f] = "awaitCopy"] /\ UNCHANGED destSfx
    /\ UNCHANGED << sortaFrame, srcTree, destDirs, destTree, fsLog, phase, processedFiles,
                    workList, msgLog, ioErrors, promptVars >>

\* await limit(() => fs.copyFile(filePath, destPath)); processedFiles++
SortaCopyDone(f) ==
    /\ variant = "sorta"
    /\ MayResume(f, "awaitCopy")
    /\ \/ /\ destTree' = WriteAt(destTree, sortaDestPath(f, destSfx[f]), f)
          /\ Did(f, "copy", sortaDestPath(f, destSfx[f]))
          /\ processedFiles' = processedFiles + 1
          /\ pc' = [pc EXCEPT ![f] = "done"]
          /\ UNCHANGED << phase, ioErrors >>
       \/ /\ Threw(f, "copy")
          /\ pc' = [pc EXCEPT ![f] = "rejected"]
          /\ phase' = "crashed"
          /\ UNCHANGED << destTree, fsLog, processedFiles >>
    /\ UNCHANGED << sortaFrame, srcTree, destDirs, workList, destSfx, msgLog, promptVars >>

\* the for loop is over: "Organization complete!"
SortaFinish ==
    /\ variant = "sorta"
    /\ phase = "running"
    /\ \A i \in 1 .. Len(workList) : pc[workList[i]] = "done"
    /\ phase' = "ended"
    /\ UNCHANGED << staticVars, diskVars, memVars >>

NextSorta ==
    \/ SortaCollect
    \/ \E f \in Files : SortaStart(f)
    \/ \E f \in Files : SortaDirExistsDone(f)
    \/ \E f \in Files : SortaMkdirDone(f)
    \/ \E f \in Files : ConflictCheckDone(f)
    \/ \E f \in Files : ChoiceAnswered(f)
    \/ \E f \in Files : ApplyAllAnswered(f)
    \/ \E f \in Files : NoAnswer(f)
    \/ \E f \in Files : UniqueProbeDone(f)
    \/ \E f \in Files : SortaCopyDone(f)
    \/ SortaFinish
    \/ Interrupt
    \/ Rerun

SpecSorta == InitSorta /\ [][NextSorta]_vars

(***************************************************************************)
(* The three suffix loops under fair scheduling: getUniqueDestPath of      *)
(* sorta.ts and the while loops of sorta-vids.ts and create-metadata.ts,   *)
(* over destinations that hold the first names of the sequence, with and   *)
(* without a gap.  An existence check that was issued settles.             *)
(***************************************************************************)
LoopPreExisting == { {}, {0}, {0, 1}, {0, 2} }

InitSeq ==
    /\ variant \in {"sortaVids", "createMetadata"}
    /\ fileInfo = [f \in Files |-> [stem |-> "a", ext |-> eligibleExt(variant)]]
    /\ srcTree = Files
    /\ \E pre \in LoopPreExisting :
          destTree = [p \in { prePath(variant, n) : n \in pre } |-> 0]
    /\ destDirs = {typeDirOf(variant, eligibleExt(variant))}
    /\ metadataFile =
          [kind |-> "ok",
           recs |-> [f \in Files |-> Record(f, fileInfo[f], FALSE, "none")]]
    /\ fsLog = {}
    /\ InitMemory
    /\ rerun = FALSE
    /\ firstRun = "none"
    /\ NoWalk

NextSeq ==
    \/ LoadMetadata
    \/ CollectFiles
    \/ \E f \in Files : StartTask(f)
    \/ \E f \in Files : DirExistsDone(f)
    \/ \E f \in Files : ExistsDone(f)
    \/ \E f \in Files : CopyDone(f)
    \/ StartFlush
    \/ FlushDone

NextLoops == NextSorta \/ NextSeq

SpecLoops ==
    /\ InitSorta \/ InitSeq
    /\ [][NextLoops]_vars
    /\ WF_vars(\E f \in Files : ExistsDone(f))
    /\ WF_vars(\E f \in Files : UniqueProbeDone(f))

(***************************************************************************)
(* A pass of sorta-vids.ts or create-metadata.ts over enough files for the *)
(* periodic flush to fall due; the metadata file has been loaded and the   *)
(* files collected.  One record may be copied already.                     *)
(***************************************************************************)
NFlushFiles == 11

FlushFiles == 1 .. NFlushFiles

\* which record is copied == true in the document that was loaded (0: none)
SettledChoices == {0, 1, 6}

InitFlush ==
    /\ variant \in {"sortaVids", "createMetadata"}
    /\ fileInfo = [f \in FlushFiles |-> [stem |-> "a", ext |-> eligibleExt(variant)]]
    /\ srcTree = FlushFiles
    /\ \E pre \in LoopPreExisting :
          destTree = [p \in { prePath(variant, n) : n \in pre } |-> 0]
    /\ destDirs = {typeDirOf(variant, eligibleExt(variant))}
    /\ \E settled \in SettledChoices :
          metadataFile =
             [kind |-> "ok",
              recs |-> [f \in FlushFiles |-> Record(f, fileInfo[f], f = settled, "none")]]
    /\ fsLog = {}
    /\ phase = "running"
    /\ fileMetadataArray = [defined |-> TRUE, recs |-> metadataFile.recs]
    /\ copiedHashes = {}
    /\ duplicateCount = 0
    /\ spaceSaved = 0
    /\ processedFiles = 0
    /\ workList = [i \in FlushFiles |-> i]
    /\ pc = [f \in FlushFiles |-> "queued"]
    /\ destSfx = [f \in FlushFiles |-> 0]
    /\ msgLog = {}
    /\ ioErrors = {}
    /\ loaded = [kind |-> "ok", recs |-> metadataFile.recs, disk |-> metadataFile.recs]
    /\ globalDuplicateAction = "null"
    /\ userChoice = "none"
    /\ rerun = FALSE
    /\ firstRun = "none"
    /\ NoWalk

NextFlush ==
    \/ \E f \in FlushFiles : StartTask(f)
    \/ \E f \in FlushFiles : DirExistsDone(f)
    \/ \E f \in FlushFiles : ExistsDone(f)
    \/ \E f \in FlushFiles : CopyDone(f)
    \/ StartFlush
    \/ FlushDone

SpecFlush == InitFlush /\ [][NextFlush]_vars

(***************************************************************************)
(* part_000 over a metadata file whose records may lack a content hash, as *)
(* written when hashing failed (hash: null) or by a generator that does    *)
(* not hash.  "none" is that absent value; a JavaScript Set holds it like  *)
(* any other.                                                              *)
(***************************************************************************)
MaybeHashes == {"none", "h1"}

InitHashless ==
    /\ variant = "part000"
    /\ fileInfo = [f \in Files |-> [stem |-> IF f = 1 THEN "a" ELSE "b", ext |-> ".mp4"]]
    /\ srcTree = Files
    /\ destTree = << >>
    /\ destDirs \in { {}, {typeDirOf(variant, ".mp4")} }
    /\ \E recs \in [Files -> [present : {TRUE}, copied : BOOLEAN, hash : MaybeHashes,
                              timestamp : {Timestamp}, path : Files,
                              filename : { << "a", ".mp4" >>, << "b", ".mp4" >> }]] :
          /\ \A f \in Files : \E c \in BOOLEAN, h \in MaybeHashes :
                recs[f] = Record(f, fileInfo[f], c, h)
          /\ metadataFile = [kind |-> "ok", recs |-> recs]
    /\ fsLog = {}
    /\ InitMemory
    /\ rerun = FALSE
    /\ firstRun = "none"
    /\ NoWalk

NextHashless ==
    \/ LoadMetadata
    \/ CollectFiles
    \/ \E f \in Files : StartTask(f)
    \/ \E f \in Files : StatDone(f)
    \/ \E f \in Files : DirExistsDone(f)
    \/ \E f \in Files : MkdirDone(f)
    \/ \E f \in Files : AccessDone(f)
    \/ \E f \in Files : RenameDone(f)
    \/ StartFlush
    \/ FlushDone

SpecHashless == InitHashless /\ [][NextHashless]_vars

(***************************************************************************)
(* What the claims speak of                                                *)
(***************************************************************************)
Transfers == {"rename", "copy"}

\* the file system mutations this process made for file f
OpsNow(f) == { e \in fsLog : e.file = f /\ e.rerun = rerun }

TransferredNow(f) == \E e \in OpsNow(f) : e.op \in Transfers

Said(f, text) == [file |-> f, msg |-> text] \in msgLog

\* f was handed to processFile and got past the extension filter
Processed(f) == InWork(f) /\ pc[f] # "queued" /\ IsRelevant(f)

(***************************************************************************)
(* C1: a file whose record is copied when a pass starts gets no copy, no   *)
(* rename and no mkdir from that pass, and its record stays as loaded.     *)
(***************************************************************************)
C1_SettledFileUntouched ==
    \A f \in Files :
        (loaded.recs[f].present /\ loaded.recs[f].copied) =>
            /\ OpsNow(f) = {}
            /\ fileMetadataArray.recs[f] = loaded.recs[f]

\* a second pass has ended in which a file the first pass copied was skipped as copied
C1_Witness ==
    /\ rerun
    /\ phase = "ended"
    /\ \E f \in Files :
          /\ \E e \in fsLog : e.file = f /\ ~e.rerun /\ e.op = "copy"
          /\ loaded.recs[f].copied
          /\ Said(f, "alreadyCopied")

(***************************************************************************)
(* C8: an eligible file without a record in the loaded mapping is skipped: *)
(* nothing is created or written for it, "No metadata" is logged for it,   *)
(* its processFile returns normally, and the pass is not ended by it.      *)
(***************************************************************************)
C8_MissingMetadataSkipped ==
    /\ \A f \in Files :
          (Processed(f) /\ ~loaded.recs[f].present) =>
              /\ pc[f] = "done"
              /\ Said(f, "noMetadata")
              /\ OpsNow(f) = {}
              /\ ~\E e \in ioErrors : e.file = f
    /\ phase = "crashed" => \E e \in ioErrors : loaded.recs[e.file].present

\* a pass over a readable store has ended: one file had no record and was
\* skipped, another one was transferred
C8_Witness ==
    /\ phase = "ended"
    /\ loaded.kind = "ok"
    /\ \E f, g \in Files :
          /\ Processed(f) /\ ~loaded.recs[f].present /\ Said(f, "noMetadata")
          /\ TransferredNow(g)

(***************************************************************************)
(* C10: when the metadata file is missing, is not JSON or has no usable    *)
(* files collection, the mapping is empty, the run goes on, and every      *)
(* eligible file is skipped as missing metadata; nothing is transferred.   *)
(***************************************************************************)
Unreadable == {"missing", "invalid", "nofiles", "partial", "unread"}

C10_UnreadableStoreEmptyMapping ==
    (phase # "boot" /\ loaded.kind \in Unreadable) =>
        /\ \A f \in Files : ~Metadata(f).present
        /\ phase # "crashed"
        /\ \A f \in Files : OpsNow(f) = {}
        /\ \A f \in Files : Processed(f) => pc[f] = "done" /\ Said(f, "noMetadata")
        /\ phase = "ended" => \A f \in srcTree : IsRelevant(f) => Said(f, "noMetadata")

\* a pass that read a document without a files collection has ended with
\* every one of its two or more eligible files skipped
C10_Witness ==
    /\ phase = "ended"
    /\ loaded.kind = "nofiles"
    /\ Cardinality({ f \in Files : Said(f, "noMetadata") }) >= 2

(***************************************************************************)
(* C3: of two un-copied eligible files with the same content hash exactly  *)
(* one is transferred in a run of the hashing organizer; the other one is  *)
(* skipped as a duplicate and its size is added to spaceSaved.             *)
(***************************************************************************)
\* spaceSaved has counted the size of f (sizes are distinct powers of two)
SavedSizeOf(f) == (spaceSaved \div sizeOf(f)) % 2 = 1

EqualHashPair(f, g) ==
    /\ f # g
    /\ InWork(f) /\ InWork(g)
    /\ loaded.recs[f].present /\ loaded.recs[g].present
    /\ ~loaded.recs[f].copied /\ ~loaded.recs[g].copied
    /\ loaded.recs[f].hash = loaded.recs[g].hash
    /\ loaded.recs[f].hash \notin LoadedHashes(variant, loaded)

C3_OneOfEqualHashesTransferred ==
    (variant = "part000" /\ phase = "ended" /\ ioErrors = {}) =>
        \A f, g \in Files :
            EqualHashPair(f, g) =>
                \/ TransferredNow(f) /\ ~TransferredNow(g) /\ Said(g, "duplicate") /\ SavedSizeOf(g)
                \/ TransferredNow(g) /\ ~TransferredNow(f) /\ Said(f, "duplicate") /\ SavedSizeOf(f)

(***************************************************************************)
(* C4: the files of one run that resolve to the same destination name are  *)
(* written to pairwise distinct paths, and the content of each of them is  *)
(* in the destination afterwards.                                          *)
(***************************************************************************)
C4_SameNameFilesAllKept ==
    /\ \A f, g \in Files :
          (f # g /\ TransferredNow(f) /\ TransferredNow(g)) =>
              \A e \in OpsNow(f), d \in OpsNow(g) :
                  (e.op \in Transfers /\ d.op \in Transfers) => e.to # d.to
    /\ \A f \in Files :
          TransferredNow(f) => \E p \in DOMAIN destTree : destTree[p] = f

(***************************************************************************)
(* C5: a file that is in the destination before a transfer is not          *)
(* overwritten by it (none of these organizers has a Replace decision): a  *)
(* file that was there before the pass stays as it was.                    *)
(***************************************************************************)
C5_ExistingDestinationKept ==
    [][\A p \in DOMAIN destTree :
          destTree[p] = 0 => (p \in DOMAIN destTree' /\ destTree'[p] = 0)]_vars

(***************************************************************************)
(* C6: a transfer that fails does not abort the batch: the pass goes on    *)
(* with the remaining files and runs to its end.                           *)
(***************************************************************************)
C6_FailedTransferKeepsBatch ==
    \A e \in ioErrors :
        e.op \in Transfers =>
            /\ phase # "crashed"
            /\ pc[e.file] = "done"
            /\ ~Metadata(e.file).copied

(***************************************************************************)
(* C7: over an interrupted run and its rerun no source file is transferred *)
(* to the destination more than once.                                      *)
(***************************************************************************)
C7_TransferredAtMostOnce ==
    \A f \in Files :
        Cardinality({ e \in fsLog : e.file = f /\ e.op \in Transfers }) <= 1

(***************************************************************************)
(* The directory walks: collectFiles of the five organizers and            *)
(* scanDirectory of the metadata generators, one readdir at a time.        *)
(***************************************************************************)
MaxDepth == 2

Walkers == Variants \cup {"sorta", "scan"}

\* the Dirents a directory may hold; a name is its sequence of tokens
visibleFile == [name |-> << "x", ".jpg" >>, isDirectory |-> FALSE]

hiddenFile == [name |-> << ".", "x", ".jpg" >>, isDirectory |-> FALSE]

visibleDir == [name |-> << "d" >>, isDirectory |-> TRUE]

hiddenDir == [name |-> << ".", "trash" >>, isDirectory |-> TRUE]

\* the order readdir lists them in
DirentOrder == << hiddenDir, hiddenFile, visibleDir, visibleFile >>

Dirents == { DirentOrder[i] : i \in 1 .. 4 }

\* item.name.startsWith('.')
startsWithDot(name) == Len(name) > 0 /\ Head(name) = "."

\* sorta.ts has no such test
SkipsHidden(w) == w # "sorta"

\* what fs.readdir(dir, { withFileTypes: true }) lists for a directory at this depth
readdir(dir) ==
    IF Len(dir) >= MaxDepth THEN << >>
    ELSE LET here(e) == e \in listing[Len(dir)] IN SelectSeq(DirentOrder, here)

\* a rejected readdir: the organizers with a try/catch return from this call, the scan
\* returns on EPERM and rethrows anything else, sorta.ts catches nothing
OnReaddirError(w, code) ==
    IF w = "sorta" THEN "throw"
    ELSE IF w = "scan" THEN (IF code = "EPERM" THEN "return" ELSE "throw")
    ELSE "return"

InitCollect ==
    /\ variant \in Walkers
    /\ listing \in [0 .. MaxDepth - 1 -> SUBSET Dirents]
    /\ stack = << >>
    /\ collected = << >>
    /\ walk = "idle"
    /\ \E argc \in 0 .. 2 : process = Started(argc)
    /\ fileInfo = [f \in Files |-> [stem |-> "a", ext |-> ".jpg"]]
    /\ srcTree = {}
    /\ destTree = << >>
    /\ destDirs = {}
    /\ metadataFile = [kind |-> "missing", recs |-> NoRecords]
    /\ fsLog = {}
    /\ InitMemory
    /\ rerun = FALSE
    /\ firstRun = "none"

top == stack[Len(stack)]

\* path.join(currentDir, item.name)
JoinPath(dir, name) == Append(dir, name)

Pop(st) == SubSeq(st, 1, Len(st) - 1)

orgVars == << fileInfo, rerun, firstRun, diskVars, memVars, phase, variant, listing >>

scanFrame == << fileInfo, firstRun, srcTree, destDirs, destTree, fsLog, memVars, phase, variant,
                listing >>

\* the arguments the program insists on: sorta.ts reads argv[2] and argv[3], the metadata
\* generators argv[2]; the four metadata-driven organizers have their directories in the
\* source text and do not look at argv
RequiredArgs(w) ==
    CASE w = "sorta" -> 2
      [] w = "scan" -> 1
      [] OTHER -> 0

\* if (!srcDirectory || !destDirectory) { console.error('Usage: ...'); process.exit(1); }
\* otherwise organizeFilesByType / getFileMetadata is called and reads the root
ArgCheck ==
    /\ walk = "idle"
    /\ IF process.argc < RequiredArgs(variant)
       THEN /\ process' = [process EXCEPT !.usage = TRUE, !.exitCode = 1]
            /\ walk' = "exited"
            /\ UNCHANGED stack
       ELSE /\ walk' = "walking"
            /\ stack' = << [dir |-> << >>, items |-> << >>, listed |-> FALSE] >>
            /\ UNCHANGED process
    /\ UNCHANGED << orgVars, collected >>

\* await fs.readdir(currentDir) settles
ReaddirDone ==
    /\ walk = "walking"
    /\ Len(stack) > 0
    /\ ~top.listed
    /\ \/ /\ stack' = [stack EXCEPT ![Len(stack)] =
                          [dir |-> top.dir, items |-> readdir(top.dir), listed |-> TRUE]]
          /\ UNCHANGED << walk, process >>
       \/ /\ \E code \in {"EPERM", "EIO"} :
                IF OnReaddirError(variant, code) = "throw"
                THEN walk' = "threw" /\ stack' = << >>
                ELSE /\ stack' = Pop(stack)
                     /\ walk' = IF Len(stack) = 1 THEN "returned" ELSE "walking"
          /\ process' = [process EXCEPT !.rootUnread = @ \/ Len(stack) = 1]
    /\ UNCHANGED << orgVars, collected >>

\* one turn of for (const item of items)
VisitItem ==
    /\ walk = "walking"
    /\ Len(stack) > 0
    /\ top.listed
    /\ Len(top.items) > 0
    /\ LET item == Head(top.items)
           itemPath == JoinPath(top.dir, item.name)
           rest == [stack EXCEPT ![Len(stack)].items = Tail(top.items)]
       IN  IF SkipsHidden(variant) /\ startsWithDot(item.name)
           THEN stack' = rest /\ UNCHANGED collected
           ELSE IF item.isDirectory
           THEN /\ stack' = Append(rest, [dir |-> itemPath, items |-> << >>, listed |-> FALSE])
                /\ UNCHANGED collected
           ELSE /\ stack' = rest
                /\ \/ collected' = Append(collected, itemPath)
                   \/ variant = "scan" /\ UNCHANGED collected
    /\ UNCHANGED << orgVars, walk, process >>

\* the for loop of a call is over: the call returns to its caller
WalkReturn ==
    /\ walk = "walking"
    /\ Len(stack) > 0
    /\ top.listed
    /\ Len(top.items) = 0
    /\ stack' = Pop(stack)
    /\ walk' = IF Len(stack) = 1 THEN "returned" ELSE "walking"
    /\ UNCHANGED << orgVars, collected, process >>

\* path.extname of a collected path, in lower case
extOfPath(path) == toLowerCase(path[Len(path)][Len(path[Len(path)])])

\* the filter between the walk and the batch; sorta.ts and create-metadata.ts count allFiles
RelevantPath(path) ==
    variant \in {"sorta", "createMetadata"} \/ extOfPath(path) \in relevantExtensions(variant)

\* await collectFiles(srcDir) has returned: if (totalFiles === 0) { "No ... to organize";
\* return }, and the process ends; otherwise the batch starts
CollectReturned ==
    /\ variant # "scan"
    /\ walk = "returned"
    /\ IF Len(SelectSeq(collected, RelevantPath)) = 0
       THEN /\ process' = [process EXCEPT !.noFiles = TRUE, !.exitCode = 0]
            /\ walk' = "exited"
       ELSE /\ walk' = "organizing"
            /\ UNCHANGED process
    /\ UNCHANGED << orgVars, stack, collected >>

\* the rejection reaches .catch((err) => console.error(...)) at the call: the handler
\* returns and the process ends as one that has nothing left to do
CaughtAtCall ==
    /\ walk = "threw"
    /\ process' = [process EXCEPT !.exitCode = 0]
    /\ walk' = "exited"
    /\ UNCHANGED << orgVars, stack, collected >>

FreshListKeepsOld(doc) == IF doc.kind = "ok" THEN doc.files ELSE << >>

\* getFileMetadata starts every scan with filesMetadata = { files: [] }
FreshList(doc) == << >>

\* await scanDirectory(dir) has returned: fs.writeFile opens the output file
ScanWriteStart ==
    /\ variant = "scan"
    /\ walk = "returned"
    /\ walk' = "saving"
    /\ metadataFile' = [kind |-> "partial", recs |-> NoRecords]
    /\ UNCHANGED << scanFrame, rerun, stack, collected, process >>

PushedCopiedTrue == TRUE

\* copied: false, the value every pushed record gets
PushedCopied == FALSE

Range(seq) == { seq[i] : i \in 1 .. Len(seq) }

\* JSON.stringify(filesMetadata): the records pushed by this scan and nothing else; the
\* paths of the records that are copied == true are kept as a set beside the list
ScanDocument(paths) ==
    [kind |-> "ok", recs |-> NoRecords, files |-> paths,
     copied |-> IF PushedCopied THEN Range(paths) ELSE {}]

\* the document JSON.stringify(filesMetadata) is on disk: "Metadata saved"
ScanWriteDone ==
    /\ variant = "scan"
    /\ walk = "saving"
    /\ walk' = "saved"
    /\ metadataFile' = ScanDocument(collected)
    /\ process' = [process EXCEPT !.exitCode = 0]
    /\ UNCHANGED << scanFrame, rerun, stack, collected >>

\* between two runs of the generator an organizer that copies (sorta-vids.ts,
\* create-metadata.ts) has set copied = true in every record and saved the document
FlagRecords ==
    /\ variant = "scan"
    /\ walk = "saved"
    /\ ~rerun
    /\ Len(metadataFile.files) > 0
    /\ metadataFile.copied = {}
    /\ metadataFile' = [metadataFile EXCEPT !.copied = Range(metadataFile.files)]
    /\ fsLog' = fsLog \cup { [file |-> 0, op |-> "flag", to |-> q, rerun |-> rerun] :
                                q \in Range(metadataFile.files) }
    /\ UNCHANGED << fileInfo, firstRun, srcTree, destDirs, destTree, memVars, phase, variant,
                    listing, rerun, stack, collected, walk, process >>

\* the metadata generator is run again on the same tree and output file
Rescan ==
    /\ variant = "scan"
    /\ walk \in {"saved", "exited"}
    /\ process.argc >= RequiredArgs(variant)
    /\ ~rerun
    /\ rerun' = TRUE
    /\ collected' = FreshList(metadataFile)
    /\ stack' = << [dir |-> << >>, items |-> << >>, listed |-> FALSE] >>
    /\ walk' = "walking"
    /\ process' = Started(process.argc)
    /\ UNCHANGED << scanFrame, metadataFile >>

NextCollect ==
    \/ ArgCheck
    \/ ReaddirDone
    \/ VisitItem
    \/ WalkReturn
    \/ CollectReturned
    \/ CaughtAtCall
    \/ ScanWriteStart
    \/ ScanWriteDone
    \/ FlagRecords
    \/ Rescan

SpecCollect == InitCollect /\ [][NextCollect]_vars

(***************************************************************************)
(* C9: no collected path has a component whose name begins with '.', in    *)
(* the collector of every organizer and in the metadata-generation scan.   *)
(***************************************************************************)
HasHiddenComponent(path) == \E i \in 1 .. Len(path) : startsWithDot(path[i])

C9_NoHiddenPathCollected ==
    \A i \in 1 .. Len(collected) : ~HasHiddenComponent(collected[i])

\* the same, for the walks that test startsWith('.')
C9_HiddenSkippedWhereTested ==
    SkipsHidden(variant) => C9_NoHiddenPathCollected

(***************************************************************************)
(* C2: a second organize pass right after a first one that ran to its end  *)
(* transfers nothing and overwrites nothing; in particular it does not     *)
(* transfer again a file the first pass transferred.                       *)
(***************************************************************************)
C2_SecondPassRepeatsNoTransfer ==
    (rerun /\ firstRun = "ended") =>
        \A f \in Files :
            (\E e \in fsLog : e.file = f /\ ~e.rerun /\ e.op \in Transfers) => OpsNow(f) = {}

(***************************************************************************)
(* C11: the metadata file never holds a partially written document: a      *)
(* reader sees the complete previous document or the complete new one,     *)
(* also when a flush is cut short by an interruption.                      *)
(***************************************************************************)
C11_NoPartialDocument == metadataFile.kind # "partial"

(***************************************************************************)
(* C12: in every reachable state of an organize pass at most 10 file       *)
(* transfers (copy or rename operations) are in flight.                    *)
(***************************************************************************)
InFlight == { t \in DOMAIN pc : pc[t] \in {"awaitRename", "awaitCopy"} }

C12_AtMostTenInFlight == Cardinality(InFlight) <= 10

\* ten renames are in flight while a task waits in the queue of the pool
C12_Witness ==
    /\ Cardinality(InFlight) = 10
    /\ \E t \in DOMAIN pc : pc[t] = "queued"

(***************************************************************************)
(* C13: an organize pass deletes no record: every path with a record in    *)
(* the metadata file when the pass starts still has one in the file when   *)
(* the pass has ended, also when the initial load failed.                  *)
(***************************************************************************)
C13_RecordsNeverDeleted ==
    phase = "ended" =>
        \A f \in Files : loaded.disk[f].present => metadataFile.recs[f].present

(***************************************************************************)
(* C14: the metadata store holds at most one record per path: a scan emits *)
(* each path at most once, and a scan of a path that was scanned before    *)
(* replaces its record instead of adding a second one.                     *)
(***************************************************************************)
NoDuplicates(seq) == \A i, j \in 1 .. Len(seq) : seq[i] = seq[j] => i = j

C14_OneRecordPerPath ==
    /\ NoDuplicates(collected)
    /\ (variant = "scan" /\ metadataFile.kind = "ok") => NoDuplicates(metadataFile.files)

\* a second scan of the same tree has saved a document with two or more records
C14_Witness ==
    /\ variant = "scan"
    /\ rerun
    /\ walk = "saved"
    /\ Len(metadataFile.files) >= 2

(***************************************************************************)
(* C15: an eligible image with an un-copied record and no conflict goes to *)
(* destDir/images/<extension without dot>/<date>_<name without its         *)
(* extension><extension>, also when the extension is in upper case         *)
(* (photo1.jpg of 2022-03-01 goes to out/images/jpg/2022-03-01_photo1.jpg).*)
(***************************************************************************)
\* the path the claim gives, with the extension as written or in lower case
ClaimedImagePath(f, e) ==
    << destDir, "/", "images", "/", extDirName(toLowerCase(fileInfo[f].ext)), "/",
       "2022-03-01", "_", fileInfo[f].stem, e >>

C15_ImageDestinationPath ==
    \A e \in fsLog :
        (e.op \in Transfers /\ destSfx[e.file] = 0) =>
            e.to \in { ClaimedImagePath(e.file, fileInfo[e.file].ext),
                       ClaimedImagePath(e.file, toLowerCase(fileInfo[e.file].ext)) }

\* the same for page.tsx and files whose extension is in lower case
C15_LowerCaseInPage ==
    \A e \in fsLog :
        (e.op \in Transfers /\ destSfx[e.file] = 0 /\ variant = "page"
            /\ fileInfo[e.file].ext = ".jpg") =>
            e.to = ClaimedImagePath(e.file, ".jpg")

\* the same for page.tsx and every file, which an upper-case extension refutes
C15_AnyCaseInPage ==
    \A e \in fsLog :
        (e.op \in Transfers /\ destSfx[e.file] = 0 /\ variant = "page") =>
            e.to \in { ClaimedImagePath(e.file, fileInfo[e.file].ext),
                       ClaimedImagePath(e.file, toLowerCase(fileInfo[e.file].ext)) }

(***************************************************************************)
(* C16: when the computed destination exists and the policy is Suffix, the *)
(* resolved path is the first name of <base>_1<ext>, <base>_2<ext>, ... in *)
(* the same directory that does not exist, and it does not exist when it   *)
(* is returned.                                                            *)
(***************************************************************************)
\* the path the organizer is about to copy file f to
ResolvedPath(f) ==
    IF variant = "sorta" THEN sortaDestPath(f, destSfx[f]) ELSE destPath(f, destSfx[f])

\* <base>_n<ext> in the directory of the computed destination of f
ClaimedSuffixPath(f, n) ==
    IF variant = "sorta"
    THEN sortaTypeDir(f) \o << "/" >> \o baseName(f) \o << "_", ToString(n), extOf(f) >>
    ELSE typeDir(f) \o << "/", formatTimestamp(Timestamp), "_" >> \o baseName(f)
            \o << "_", ToString(n), extOf(f) >>

SuffixResolved(f) ==
    /\ ResolvedPath(f) = ClaimedSuffixPath(f, destSfx[f])
    /\ ~Exists(ResolvedPath(f))
    /\ \A k \in 1 .. destSfx[f] - 1 : Exists(ClaimedSuffixPath(f, k))

C16_SuffixIsFirstFreeName ==
    \A f \in Files : (pc[f] = "awaitCopy" /\ destSfx[f] >= 1) => SuffixResolved(f)

(***************************************************************************)
(* C17: an organizer started without both <sourceDir> and <destDir>, or a  *)
(* metadata generator started without <sourceDir>, prints the usage        *)
(* message and exits non-zero, and reads no directory before that.         *)
(***************************************************************************)
\* the arguments the claim has each program insist on
ClaimedArgs(w) == IF w = "scan" THEN 1 ELSE 2

C17_MissingArgumentsAreFatal ==
    process.argc < ClaimedArgs(variant) =>
        /\ walk \in {"idle", "exited"}
        /\ collected = << >>
        /\ walk = "exited" => (process.usage /\ process.exitCode = 1)

\* the same for the programs that read process.argv
C17_WhereArgvIsRead ==
    variant \in {"sorta", "scan"} => C17_MissingArgumentsAreFatal

(***************************************************************************)
(* C18: the exit status is non-zero when the source root cannot be read at *)
(* all, and an unreadable root is never reported as a successful empty     *)
(* batch.                                                                  *)
(***************************************************************************)
C18_UnreadableRootIsAnError ==
    (variant # "scan" /\ process.rootUnread /\ walk = "exited") =>
        /\ process.exitCode # 0
        /\ ~process.noFiles

(***************************************************************************)
(* C19: after every successful transfer of a file, and only then, its      *)
(* record has copied = true and the basename of the destination written    *)
(* as its filename, its hash (if it has one) is in the DuplicateIndex, and *)
(* the processed counter has gone up by exactly one.                       *)
(***************************************************************************)
\* path.basename(p): what follows the last separator
PathBasename(p) ==
    LET seps == { i \in 1 .. Len(p) : p[i] = "/" }
        last == CHOOSE i \in seps : \A j \in seps : j <= i
    IN  SubSeq(p, last + 1, Len(p))

InPass == phase \in {"running", "flushing", "ended", "crashed"}

\* the flag, the index and the counter after the transfers of this pass
FlagIndexAndCounter ==
    /\ \A f \in Files :
          TransferredNow(f) =>
              /\ Metadata(f).copied
              /\ Metadata(f).hash # "none" => Metadata(f).hash \in copiedHashes
    /\ \A f \in Files :
          (Metadata(f).present /\ Metadata(f).copied /\ ~loaded.recs[f].copied) =>
              TransferredNow(f)
    /\ processedFiles = Cardinality({ f \in Files : TransferredNow(f) })

FilenameIsDestination ==
    \A f \in Files :
        \A e \in OpsNow(f) :
            e.op \in Transfers => Metadata(f).filename = PathBasename(e.to)

C19_RecordFollowsTransfer == InPass => (FlagIndexAndCounter /\ FilenameIsDestination)

\* the same without the filename
C19_FlagIndexAndCounter == InPass => FlagIndexAndCounter

(***************************************************************************)
(* C20: once the sticky global conflict policy is set in a run it does not *)
(* change for the rest of the run, and every later destination conflict is *)
(* resolved with it and without a prompt.                                  *)
(***************************************************************************)
Prompting == {"awaitChoice", "awaitApplyAll"}

\* a step of the run that starts with the sticky policy set
StickyStep ==
    /\ globalDuplicateAction' = globalDuplicateAction
    /\ \A f \in Files :
          /\ pc'[f] \notin Prompting
          /\ (pc[f] = "awaitConflict" /\ pc'[f] # pc[f] /\ Exists(sortaDestPath(f, 0))) =>
                pc'[f] = IF AfterAction(globalDuplicateAction) = "skipped" THEN "done"
                         ELSE AfterAction(globalDuplicateAction)

C20_StickyPolicyStays ==
    [][(globalDuplicateAction # "null" /\ phase' \notin {"interrupted", "boot"}) => StickyStep]_vars

\* the first file met a conflict and the user made the answer sticky; the second file met
\* a conflict too and was copied under the next free name without a prompt
C20_Witness ==
    /\ globalDuplicateAction # "null"
    /\ \E f, g \in Files :
          /\ f \in Before(g)
          /\ Said(f, "conflict")
          /\ ~Said(g, "conflict")
          /\ destSfx[g] >= 1
          /\ TransferredNow(g)

(***************************************************************************)
(* C21: after the answer Suffix or Replace to a conflict the resolver asks *)
(* whether to apply it to all remaining conflicts, and the decision that   *)
(* becomes sticky is the one that was answered.                            *)
(***************************************************************************)
\* a step of the run in which the prompt of f is answered, or its apply-to-all question
AnswerStep(f) ==
    /\ (pc[f] = "awaitChoice" /\ pc'[f] # pc[f] /\ userChoice' \in {"a", "r"}) =>
          pc'[f] = "awaitApplyAll"
    /\ (pc[f] = "awaitApplyAll" /\ pc'[f] # pc[f]) =>
          globalDuplicateAction' \in {globalDuplicateAction, userChoice}

C21_SuffixOrReplaceAsksApplyToAll ==
    [][phase' = "running" => \A f \in Files : AnswerStep(f)]_vars

\* the same for the answer Suffix alone
C21_SuffixAsksApplyToAll ==
    [][(phase' = "running" /\ userChoice' # "r") => \A f \in Files : AnswerStep(f)]_vars

(***************************************************************************)
(* C24: a destination conflict while no input channel can deliver an       *)
(* answer, and no default decision is configured, ends the run in a fatal  *)
(* configuration error: the file is not silently left out and the run does *)
(* not wait forever.                                                       *)
(***************************************************************************)
C24_NoInputIsFatal ==
    \A f \in Files :
        (process.stdin = "ended" /\ pc[f] = "awaitChoice" /\ phase # "running") =>
            /\ process.exitCode # 0
            /\ \E e \in msgLog : e.msg = "error"

(***************************************************************************)
(* C22: a conflict resolved as Skip, by answer or by sticky policy, leaves *)
(* the file where it is: nothing is copied or moved for it, the source     *)
(* file and the existing destination file stay, and the processed counter  *)
(* does not count it.                                                      *)
(***************************************************************************)
\* f is the file the for loop is at
InHand(f) == InWork(f) /\ pc[f] # "queued" /\ \A g \in Files : f \in Before(g) => pc[g] = "queued"

\* the conflict of f was resolved as Skip
SkipResolved(f) ==
    \/ Said(f, "skipped")
    \/ /\ InHand(f)
       /\ Said(f, "conflict")
       /\ pc[f] \notin Prompting
       /\ userChoice = "s" \/ (userChoice = "none" /\ globalDuplicateAction = "s")

C22_SkipLeavesFileUntouched ==
    \A f \in Files :
        SkipResolved(f) =>
            /\ pc[f] = "done"
            /\ ~TransferredNow(f)
            /\ f \in srcTree
            /\ Exists(sortaDestPath(f, 0))
            /\ \A e \in fsLog : (e.rerun = rerun /\ e.to = sortaDestPath(f, 0)) => e.file # f
            /\ processedFiles = Cardinality({ g \in Files : TransferredNow(g) })

\* a run has ended in which one conflict was answered with Skip, the file that was in the
\* destination before is still there, and another file was copied
C22_Witness ==
    /\ phase = "ended"
    /\ \E f, g \in Files :
          /\ Said(f, "skipped")
          /\ Said(f, "conflict")
          /\ destTree[sortaDestPath(f, 0)] = 0
          /\ TransferredNow(g)
          /\ processedFiles = 1

(***************************************************************************)
(* C25: at most one prompt (conflict decision or apply-to-all question) is *)
(* waiting for input at any time of a run; the prompts of two files never  *)
(* interleave.                                                             *)
(***************************************************************************)
C25_OnePromptAtATime ==
    /\ Cardinality({ f \in Files : pc[f] \in Prompting }) <= 1
    /\ \A f \in Files : pc[f] \in Prompting => InHand(f)

\* the prompt of the second file is waiting after the prompt of the first was answered
C25_Witness ==
    \E f, g \in Files :
        /\ f \in Before(g)
        /\ Said(f, "conflict")
        /\ pc[f] = "done"
        /\ pc[g] = "awaitChoice"

(***************************************************************************)
(* C23: the suffix search always terminates: whatever the destination      *)
(* directory holds, it returns a free name after finitely many existence   *)
(* checks (or gives up at a retry cap); it never loops forever.            *)
(***************************************************************************)
Searching == {"awaitExists", "awaitUnique"}

C23_SuffixSearchTerminates ==
    \A f \in Files : (pc[f] \in Searching) ~> (pc[f] \notin Searching)

\* a search has returned the third name of the sequence after finding two names taken
C23_Witness ==
    \E f \in Files :
        /\ pc[f] = "awaitCopy"
        /\ destSfx[f] >= 2

(***************************************************************************)
(* C26: a directory whose listing fails, with a permission error or any    *)
(* other read error, never aborts a traversal: its subtree is skipped and  *)
(* the non-hidden files of its sibling subtrees are still collected, in    *)
(* the collector of the organizers and in the metadata-generation scan.    *)
(***************************************************************************)
WalkOver == walk \in {"returned", "organizing", "saving", "saved", "exited"} /\ ~process.usage

\* the visible file beside the sub-directory of the root is in the collection
RootSiblingCollected ==
    (visibleFile \in listing[0] /\ ~process.rootUnread)
        => \E i \in 1 .. Len(collected) : collected[i] = JoinPath(<< >>, visibleFile.name)

C26_FailedListingNeverAborts ==
    /\ walk # "threw"
    /\ WalkOver => RootSiblingCollected

\* the same, for the collectors that wrap readdir in a try/catch that returns
C26_CaughtWhereWrapped ==
    variant \in Variants => C26_FailedListingNeverAborts

(***************************************************************************)
(* C27: in the organizers that flush periodically, between two             *)
(* file-processing steps fewer than 10 records are copied == true in       *)
(* memory but not yet copied == true in the persisted metadata file, and   *)
(* after the pass has ended there is none.                                 *)
(***************************************************************************)
PersistedCopied(f) == metadataFile.kind = "ok" /\ metadataFile.recs[f].copied

Unflushed ==
    { f \in DOMAIN fileMetadataArray.recs :
         fileMetadataArray.recs[f].copied /\ ~PersistedCopied(f) }

BetweenSteps == phase = "running" /\ \A f \in DOMAIN pc : pc[f] \in {"queued", "done"}

C27_BoundedUnflushedRecords ==
    /\ BetweenSteps => Cardinality(Unflushed) < 10
    /\ phase = "ended" => Unflushed = {}

\* the tenth copy was flushed and the eleventh is in memory only
C27_Witness ==
    /\ BetweenSteps
    /\ processedFiles = 11
    /\ Cardinality(Unflushed) = 1
    /\ Cardinality({ f \in DOMAIN pc : PersistedCopied(f) }) = 10

(***************************************************************************)
(* C28: the organize pass never changes the hash, path or timestamp of a   *)
(* record: in memory and in every flushed document these fields equal      *)
(* their values at load time; only copied and filename may change.         *)
(***************************************************************************)
SameIdentity(now, before) ==
    /\ now.present
    /\ now.hash = before.hash
    /\ now.path = before.path
    /\ now.timestamp = before.timestamp

C28_IdentityFieldsKept ==
    \A f \in DOMAIN loaded.recs :
        loaded.recs[f].present =>
            /\ SameIdentity(fileMetadataArray.recs[f], loaded.recs[f])
            /\ metadataFile.kind = "ok" => SameIdentity(metadataFile.recs[f], loaded.recs[f])

\* a record that was un-copied at load is copied == true in the document the pass wrote
C28_Witness ==
    \E f \in DOMAIN loaded.recs :
        /\ phase = "ended"
        /\ loaded.recs[f].present
        /\ ~loaded.recs[f].copied
        /\ metadataFile.kind = "ok"
        /\ metadataFile.recs[f].copied
        /\ metadataFile.recs[f].hash # "none"

(***************************************************************************)
(* C29: the already-settled check precedes the duplicate check: a file     *)
(* whose own record is copied == true is skipped as already settled and    *)
(* is neither counted as a duplicate nor added to the bytes saved; the     *)
(* duplicate counter covers exactly the un-copied files skipped because    *)
(* another record with the same hash is copied.                            *)
(***************************************************************************)
SettledAtLoad(f) == loaded.kind = "ok" /\ loaded.recs[f].present /\ loaded.recs[f].copied

SkippedAsDuplicate == { f \in Files : Said(f, "duplicate") }

C29_SettledIsNotADuplicate ==
    /\ \A f \in SkippedAsDuplicate : ~SettledAtLoad(f)
    /\ duplicateCount = Cardinality({ f \in SkippedAsDuplicate : ~SettledAtLoad(f) })
    /\ (\A f \in Files : SettledAtLoad(f) \/ ~Said(f, "duplicate")) => spaceSaved = 0

\* the same, for the files whose own record was not copied == true at load
C29_UncopiedDuplicatesCounted ==
    (\A f \in Files : ~SettledAtLoad(f)) =>
        duplicateCount = Cardinality(SkippedAsDuplicate)

(***************************************************************************)
(* C30: a file whose record has no content hash is never skipped as a      *)
(* duplicate: hash-less files with un-copied records are transferred, and  *)
(* a hash-less copied record adds nothing to the index of copied hashes    *)
(* that can match another file.                                            *)
(***************************************************************************)
Hashless(f) == Metadata(f).present /\ Metadata(f).hash = "none"

C30_HashlessNeverDuplicate ==
    \A f \in Files : (Hashless(f) /\ ~SettledAtLoad(f)) => ~Said(f, "duplicate")

\* a file whose record carries a hash is skipped only for a copied record of that hash
C30_HashedOnlyMatchHashed ==
    \A f \in Files :
        (Said(f, "duplicate") /\ ~Hashless(f)) =>
            \E g \in Files : Metadata(g).copied /\ Metadata(g).hash = Metadata(f).hash

(***************************************************************************)
(* C31: in every state of an organize pass the processed counter equals    *)
(* the number of records whose copied flag went from false to true in this *)
(* run, and never exceeds the number of eligible files; each eligible file *)
(* changes the counter at most once.                                       *)
(***************************************************************************)
\* the records this run has flagged: copied == false when loaded, copied == true now
FlaggedThisRun ==
    { f \in Files : /\ loaded.recs[f].present
                    /\ ~loaded.recs[f].copied
                    /\ Metadata(f).copied }

EligibleFiles == { f \in Files : InWork(f) /\ IsRelevant(f) }

C31_CounterCountsFlaggedRecords ==
    /\ processedFiles = Cardinality(FlaggedThisRun)
    /\ processedFiles <= Cardinality(EligibleFiles)

\* two files were transferred and counted while the record of neither was flagged at load
C31_Witness ==
    /\ processedFiles = 2
    /\ Cardinality(FlaggedThisRun) = 2
    /\ phase = "ended"

(***************************************************************************)
(* C32: the metadata generator writes its output file once, after the      *)
(* whole scan, as exactly the records collected by this scan, each with    *)
(* copied == false; it does not merge with what the file held, so a path   *)
(* whose record was copied == true before has copied == false afterwards;  *)
(* a scan that aborts with an error leaves the output file as it was.      *)
(***************************************************************************)
\* a step of the generator itself, not of the organizer that ran between two scans
GeneratorStep == variant = "scan" /\ ~(walk = "saved" /\ walk' = "saved")

ScanWriteStep ==
    GeneratorStep =>
        /\ metadataFile' # metadataFile =>
              \/ walk = "returned" /\ walk' = "saving"
              \/ walk = "saving" /\ walk' = "saved"
        /\ walk' = "saved" =>
              /\ metadataFile'.kind = "ok"
              /\ metadataFile'.files = collected
              /\ metadataFile'.copied = {}
        /\ (walk' = "threw" \/ walk = "threw") => metadataFile' = metadataFile

C32_ScanReplacesDocument == [][ScanWriteStep]_vars

\* a record that an organizer had flagged is copied == false in the document of the rescan
C32_Witness ==
    /\ variant = "scan"
    /\ rerun
    /\ walk = "saved"
    /\ \E q \in Range(metadataFile.files) :
          /\ [file |-> 0, op |-> "flag", to |-> q, rerun |-> FALSE] \in fsLog
          /\ q \notin metadataFile.copied

\* the second scan aborted and the flagged document of the first is still there
C32_AbortKeepsDocument ==
    (variant = "scan" /\ rerun /\ walk = "threw" /\ metadataFile.kind = "ok")
        => \A q \in Range(metadataFile.files) :
              [file |-> 0, op |-> "flag", to |-> q, rerun |-> FALSE] \in fsLog
                 <=> q \in metadataFile.copied

(***************************************************************************)
(* C33: in the interactive resolver an answer to the conflict prompt other *)
(* than 's', 'r' or 'a' resolves the conflict as Skip for that file only:  *)
(* no file is copied, the apply-to-all question is not asked and the       *)
(* sticky policy stays unset.                                              *)
(***************************************************************************)
KnownAnswers == {"s", "r", "a"}

\* a step of the run in which the prompt of f gets an answer that is none of the three
UnknownAnswerStep(f) ==
    (pc[f] = "awaitChoice" /\ pc'[f] # pc[f] /\ userChoice' \notin KnownAnswers) =>
        /\ pc'[f] = "done"
        /\ [file |-> f, msg |-> "skipped"] \in msgLog'
        /\ fsLog' = fsLog
        /\ destTree' = destTree
        /\ srcTree' = srcTree
        /\ processedFiles' = processedFiles
        /\ globalDuplicateAction' = "null"

C33_UnknownAnswerSkipsOneFile ==
    [][phase' = "running" => \A f \in Files : UnknownAnswerStep(f)]_vars

\* the last prompt was answered with none of the three letters: its file was skipped and
\* the policy is unset
C33_Witness ==
    /\ userChoice \notin KnownAnswers \cup {"none"}
    /\ globalDuplicateAction = "null"
    /\ \E f \in Files :
          /\ Said(f, "conflict")
          /\ Said(f, "skipped")
          /\ pc[f] = "done"
          /\ ~TransferredNow(f)

====
